---- MODULE Spec2Model ----
(***************************************************************************)
(* Model of the Claude Code tray indicator.                                *)
(*                                                                         *)
(*   hooks/tray-status-hook.py   short-lived producers: one process per    *)
(*                               hook event, each doing one locked         *)
(*                               read-modify-write of sessions.json        *)
(*   scripts/claude-tray.py      the long-lived consumer: a 1 s timer that *)
(*                               reads sessions.json and updates the menu  *)
(*                                                                         *)
(* Python strings are TLA+ strings, Python dicts that keep insertion order *)
(* (the store) are sequences of records carrying their key, Python None is *)
(* the value None (NoPid for the integer-valued terminal_pid).             *)
(***************************************************************************)
EXTENDS Integers, Sequences, FiniteSets, TLC

VARIABLES
    file,           \* content of ~/.claude-tray/sessions.json
    lockHolder,     \* the producers holding flock(LOCK_EX) on the file
    pc,             \* position of each producer process
    data,           \* the hook payload each producer read from stdin
    ppid,           \* os.getppid() of each producer
    sessions,       \* the producer's local `sessions` dict
    eventsLeft,     \* hook events still to be delivered in this run
    clock,          \* wall clock, in timer intervals
    committed,      \* history: the store as left by the last completed rewrite
    seqStore,       \* history: the transforms applied one after another, in lock order
    seen,           \* the consumer's local `sessions` of its latest tick
    seenCommitted,  \* history: every tick so far read what the last completed rewrite left
    last_agg,       \* ClaudeTray._last_agg
    last_labels,    \* ClaudeTray._last_labels
    session_items,  \* labels of ClaudeTray._session_items, in menu order
    menu_visible,   \* ClaudeTray._menu_visible
    pending_labels, \* ClaudeTray._pending_labels
    icon,           \* what the indicator shows (last set_icon_full/set_title)
    calls,          \* the row operations made by the latest consumer handler
    raised          \* the exceptions that left a producer or the consumer uncaught

hookVars == <<file, lockHolder, pc, data, ppid, sessions, eventsLeft, committed, seqStore>>
trayVars == <<seen, seenCommitted, last_agg, last_labels, session_items, menu_visible,
             pending_labels, icon, calls>>
vars == <<file, lockHolder, pc, data, ppid, sessions, eventsLeft, clock, committed,
          seqStore, seen, seenCommitted, last_agg, last_labels, session_items, menu_visible,
          pending_labels, icon, calls, raised>>

(***************************************************************************)
(* Bounds                                                                  *)
(***************************************************************************)
NProcs == 2         \* producer processes that can run at the same time
MaxEvents == 3      \* hook events delivered in a run of the producers alone
MaxViewEvents == 2  \* hook events delivered in a run with the consumer
MaxClock == 2       \* the clock is not told apart beyond this many intervals
CutoffDuration == 2 \* the staleness cutoff of the specification, in intervals

Procs == 1..NProcs

None == "<None>"
NoPid == -1

(***************************************************************************)
(* hooks/tray-status-hook.py: constants                                    *)
(***************************************************************************)
STATE_MAP ==
    [UserPromptSubmit |-> "working",
     PreToolUse |-> "working",
     Stop |-> "waiting",
     SessionStart |-> "active",
     SessionEnd |-> "idle"]

TITLE_MAX_LEN == 20

TERMINAL_NAMES ==
    {"gnome-terminal-", "gnome-terminal-server",
     "konsole", "xfce4-terminal", "mate-terminal",
     "tilix", "terminator", "alacritty", "kitty", "wezterm",
     "xterm", "urxvt", "st", "foot"}

MaxDepth == 10

(***************************************************************************)
(* The process table find_terminal_pid walks: for each live process its    *)
(* name (/proc/<pid>/comm) and its parent; /proc/<pid>/stat is the text     *)
(* "pid (comm) state ppid ...". A pid outside the table has no /proc       *)
(* entry. Three chains under gnome-terminal, kitty and sshd (no terminal   *)
(* emulator), a chain of ten shells under a kitty, two processes that are  *)
(* each other's parent in the table (a pid reused while the walk reads     *)
(* it), a process whose parent is gone, and process names with spaces.     *)
(***************************************************************************)
ProcTable ==
    (400 :> [comm |-> "claude", ppid |-> 300]) @@
    (300 :> [comm |-> "bash", ppid |-> 200]) @@
    (200 :> [comm |-> "gnome-terminal-", ppid |-> 1]) @@
    (410 :> [comm |-> "node", ppid |-> 310]) @@
    (310 :> [comm |-> "zsh", ppid |-> 210]) @@
    (210 :> [comm |-> "kitty", ppid |-> 1]) @@
    (420 :> [comm |-> "claude", ppid |-> 320]) @@
    (320 :> [comm |-> "sshd", ppid |-> 1]) @@
    [pid \in 600..609 |-> [comm |-> "sh", ppid |-> pid + 1]] @@
    (610 :> [comm |-> "kitty", ppid |-> 1]) @@
    (700 :> [comm |-> "bash", ppid |-> 701]) @@
    (701 :> [comm |-> "bash", ppid |-> 700]) @@
    (800 :> [comm |-> "bash", ppid |-> 850]) @@
    (810 :> [comm |-> "tmux: server", ppid |-> 200]) @@
    (820 :> [comm |-> "job 2 210 x", ppid |-> 320]) @@
    (830 :> [comm |-> "strace", ppid |-> 320])

ParentPids == {400, 410, 420}

startswith(name, t) ==
    /\ Len(name) >= Len(t)
    /\ SubSeq(name, 1, Len(t)) = t

\* str.split(): the maximal runs of characters that are not spaces
RECURSIVE SplitFrom(_, _, _)
SplitFrom(s, i, word) ==
    IF i > Len(s)
    THEN IF word = "" THEN <<>> ELSE <<word>>
    ELSE IF SubSeq(s, i, i) = " "
         THEN (IF word = "" THEN <<>> ELSE <<word>>) \o SplitFrom(s, i + 1, "")
         ELSE SplitFrom(s, i + 1, word \o SubSeq(s, i, i))

split(s) == SplitFrom(s, 1, "")

Digits == <<"0", "1", "2", "3", "4", "5", "6", "7", "8", "9">>

IsDigit(c) == \E d \in 1..10 : Digits[d] = c

DigitValue(c) == (CHOOSE d \in 1..10 : Digits[d] = c) - 1

\* int(s) raises ValueError on a text that is not a number
ValueError == -2

RECURSIVE DecimalValue(_, _)
DecimalValue(s, n) ==
    IF n = 0 THEN 0
    ELSE 10 * DecimalValue(s, n - 1) + DigitValue(SubSeq(s, n, n))

int(s) ==
    IF Len(s) > 0 /\ \A i \in 1..Len(s) : IsDigit(SubSeq(s, i, i))
    THEN DecimalValue(s, Len(s))
    ELSE ValueError

\* the text of /proc/<pid>/stat
StatText(pid) ==
    ToString(pid) \o " (" \o ProcTable[pid].comm \o ") S "
        \o ToString(ProcTable[pid].ppid) \o " 0 0"

\* fields = f.read().split(); ppid = int(fields[3]): fields[3] of the source
\* is the fourth field; a text with fewer fields raises IndexError, caught
\* with ValueError. Read once for each process of the table.
StatParent ==
    [pid \in DOMAIN ProcTable |->
        LET fields == split(StatText(pid))
        IN  IF Len(fields) < 4 THEN ValueError ELSE int(fields[4])]

\* a bug: the parent id is checked before the name of the process
RECURSIVE WalkUpParentFirst(_, _)
WalkUpParentFirst(pid, hops) ==
    IF hops = 0 THEN NoPid
    ELSE IF pid \notin DOMAIN ProcTable THEN NoPid
    ELSE IF StatParent[pid] <= 1 THEN NoPid
    ELSE IF \E t \in TERMINAL_NAMES : startswith(ProcTable[pid].comm, t) THEN pid
    ELSE WalkUpParentFirst(StatParent[pid], hops - 1)

\* one pass of the loop per hop
RECURSIVE WalkUp(_, _)
WalkUp(pid, hops) ==
    IF hops = 0 THEN NoPid
    ELSE IF pid \notin DOMAIN ProcTable THEN NoPid
    ELSE IF \E t \in TERMINAL_NAMES : startswith(ProcTable[pid].comm, t) THEN pid
    ELSE IF StatParent[pid] <= 1 THEN NoPid
    ELSE WalkUp(StatParent[pid], hops - 1)

find_terminal_pid(parent) == WalkUp(parent, MaxDepth)

(***************************************************************************)
(* The store: a dict session id -> record, in insertion order.             *)
(***************************************************************************)
EmptyStore == <<>>

Keys(store) == {store[i].sid : i \in 1..Len(store)}

IndexOf(store, sid) == CHOOSE i \in 1..Len(store) : store[i].sid = sid

\* sessions.pop(session_id, None)
DictPop(store, sid) ==
    IF sid \in Keys(store)
    THEN LET k == IndexOf(store, sid)
         IN  SubSeq(store, 1, k - 1) \o SubSeq(store, k + 1, Len(store))
    ELSE store

\* a bug: the store is replaced by the one record instead of being updated
DictSetAlone(store, sid, rec) == <<rec>>

\* sessions[session_id] = rec: an existing key keeps its place, a new one is last
DictSet(store, sid, rec) ==
    IF sid \in Keys(store)
    THEN [store EXCEPT ![IndexOf(store, sid)] = rec]
    ELSE Append(store, rec)

\* d.get(key, default) on a payload: a missing key is the field None
Get(d, key, default) == IF d[key] = None THEN default ELSE d[key]

(***************************************************************************)
(* The file. json.load fails on a missing file (the consumer only), on an  *)
(* empty file and on a prefix of a JSON text.                              *)
(***************************************************************************)
FileMissing == [k |-> "missing", store |-> EmptyStore]
FileEmpty == [k |-> "empty", store |-> EmptyStore]
FilePartial == [k |-> "partial", store |-> EmptyStore]
FileJson(store) == [k |-> "json", store |-> store]

\* content that is no store: a JSON text that is not an object, truthy ([1])
\* or falsy (null), and bytes that are not UTF-8
FileList == [k |-> "list", store |-> EmptyStore]
FileNull == [k |-> "null", store |-> EmptyStore]
FileBinary == [k |-> "binary", store |-> EmptyStore]

\* an exception that no except clause caught
Raised(proc, at, exc) == [proc |-> proc, at |-> at, exc |-> exc]

\* json.load(f) with the except clause around it: anything unparseable is {}
json_load(f) == IF f.k = "json" THEN f.store ELSE EmptyStore

(***************************************************************************)
(* update_status (hook), lines 86 and 98-124: the transform applied to the *)
(* store read under the lock.                                              *)
(***************************************************************************)
EventOf(d) == Get(d, "hook_event_name", "")
SessionOf(d) == Get(d, "session_id", "unknown")

\* a bug: another default for a kind that is not in the table
StatusOfDefaultIdle(event) ==
    IF event \in DOMAIN STATE_MAP THEN STATE_MAP[event] ELSE "idle"

StatusOf(event) ==
    IF event \in DOMAIN STATE_MAP THEN STATE_MAP[event] ELSE "unknown"

\* a bug: the marker is added from the limit on, not beyond it
CaptureTitleOffByOne(prompt) ==
    IF Len(prompt) >= TITLE_MAX_LEN
    THEN SubSeq(prompt, 1, TITLE_MAX_LEN) \o "..."
    ELSE SubSeq(prompt, 1, Len(prompt))

CaptureTitle(prompt) ==
    IF Len(prompt) > TITLE_MAX_LEN
    THEN SubSeq(prompt, 1, TITLE_MAX_LEN) \o "..."
    ELSE SubSeq(prompt, 1, Len(prompt))

\* a bug: every prompt is captured, the stored title is not looked at
TitleOfLastPrompt(store, d) ==
    LET sid == SessionOf(d)
        title == IF sid \in Keys(store) THEN store[IndexOf(store, sid)].title ELSE ""
    IN  IF EventOf(d) = "UserPromptSubmit"
        THEN CaptureTitle(Get(d, "prompt", ""))
        ELSE title

TitleOf(store, d) ==
    LET sid == SessionOf(d)
        title == IF sid \in Keys(store) THEN store[IndexOf(store, sid)].title ELSE ""
    IN  IF title = "" /\ EventOf(d) = "UserPromptSubmit"
        THEN CaptureTitle(Get(d, "prompt", ""))
        ELSE title

\* a bug: every session start looks the terminal up again
TerminalPidOfEveryStart(store, d, parent) ==
    LET sid == SessionOf(d)
        terminal_pid == IF sid \in Keys(store)
                        THEN store[IndexOf(store, sid)].terminal_pid
                        ELSE NoPid
    IN  IF EventOf(d) = "SessionStart"
        THEN find_terminal_pid(parent)
        ELSE terminal_pid

TerminalPidOf(store, d, parent) ==
    LET sid == SessionOf(d)
        terminal_pid == IF sid \in Keys(store)
                        THEN store[IndexOf(store, sid)].terminal_pid
                        ELSE NoPid
    IN  IF terminal_pid = NoPid /\ EventOf(d) = "SessionStart"
        THEN find_terminal_pid(parent)
        ELSE terminal_pid

\* a bug: the terminal event is stored with its STATE_MAP status like any other
TransformKeepsEnded(store, d, parent, now) ==
    LET event == EventOf(d)
        sid == SessionOf(d)
    IN  DictSet(store, sid,
            [sid |-> sid,
             status |-> StatusOf(event),
             event |-> event,
             title |-> TitleOf(store, d),
             tool_name |-> d.tool_name,
             cwd |-> d.cwd,
             terminal_pid |-> TerminalPidOf(store, d, parent),
             timestamp |-> now])

Transform(store, d, parent, now) ==
    LET event == EventOf(d)
        sid == SessionOf(d)
    IN  IF event = "SessionEnd"
        THEN DictPop(store, sid)
        ELSE DictSet(store, sid,
                 [sid |-> sid,
                  status |-> StatusOf(event),
                  event |-> event,
                  title |-> TitleOf(store, d),
                  tool_name |-> d.tool_name,
                  cwd |-> d.cwd,
                  terminal_pid |-> TerminalPidOf(store, d, parent),
                  timestamp |-> now])

(***************************************************************************)
(* Hook payloads.                                                          *)
(***************************************************************************)
Sids == {"abc123", "0123456789ab"}

Prompts == {"", "12345678901234567890", "123456789012345678901"}

Payload(kind, sid, prompt, tool) ==
    [hook_event_name |-> kind, session_id |-> sid, prompt |-> prompt,
     tool_name |-> tool, cwd |-> IF sid = "abc123" THEN "/home/u/proj" ELSE None]

\* every kind of event for one session, and the life cycle of a second one
Payloads ==
    {Payload(k, "abc123", None, None) :
        k \in {"SessionStart", "Stop", "SessionEnd", "Notification", None}}
    \cup {Payload("PreToolUse", "abc123", None, "Bash")}
    \cup {Payload("UserPromptSubmit", "abc123", pr, None) : pr \in Prompts}
    \cup {Payload("SessionStart", "0123456789ab", None, None),
          Payload("UserPromptSubmit", "0123456789ab", "hello world", None),
          Payload("SessionEnd", "0123456789ab", None, None)}

(***************************************************************************)
(* The producer: main() and update_status(), one step per system call.     *)
(***************************************************************************)
NoPayload == Payload(None, None, None, None)

\* the process is gone, and its memory with it: the slot is free for a new one
Exit(p) ==
    /\ pc' = [pc EXCEPT ![p] = "idle"]
    /\ data' = [data EXCEPT ![p] = NoPayload]
    /\ ppid' = [ppid EXCEPT ![p] = 410]
    /\ sessions' = [sessions EXCEPT ![p] = EmptyStore]

\* os.getppid(): only a session start looks at it; the first session is started
\* from under any of the three chains, the second from under kitty
ParentsOf(d) ==
    IF EventOf(d) = "SessionStart" /\ SessionOf(d) = "abc123" THEN ParentPids ELSE {410}

\* main, lines 134-136, and update_status up to os.open(O_RDWR | O_CREAT): a new
\* hook process reads its payload from stdin and opens the file, creating it
\* when it is missing; the free slots being alike, it takes the first
mainFrom(p, payloads, parents) ==
    /\ pc[p] = "idle"
    /\ \A q \in Procs : pc[q] = "idle" => p <= q
    /\ eventsLeft > 0
    /\ \E d \in payloads :
         \E pp \in parents[d] :
            /\ data' = [data EXCEPT ![p] = d]
            /\ ppid' = [ppid EXCEPT ![p] = pp]
    /\ eventsLeft' = eventsLeft - 1
    /\ file' = IF file.k = "missing" THEN FileEmpty ELSE file
    /\ pc' = [pc EXCEPT ![p] = "lock"]
    /\ UNCHANGED <<lockHolder, sessions, clock, committed, seqStore>>
    /\ UNCHANGED trayVars
    /\ UNCHANGED raised

main(p) == mainFrom(p, Payloads, [d \in Payloads |-> ParentsOf(d)])

\* a bug: the lock does not exclude (LOCK_SH, or no flock at all)
HookLockShared(p) ==
    /\ pc[p] = "lock"
    /\ lockHolder' = lockHolder \cup {p}
    /\ pc' = [pc EXCEPT ![p] = "load"]
    /\ UNCHANGED <<file, data, ppid, sessions, eventsLeft, clock, committed, seqStore>>
    /\ UNCHANGED trayVars
    /\ UNCHANGED raised

\* fcntl.flock(fd, LOCK_EX): blocks while another process holds the lock
HookLock(p) ==
    /\ pc[p] = "lock"
    /\ lockHolder = {}
    /\ lockHolder' = {p}
    /\ pc' = [pc EXCEPT ![p] = "load"]
    /\ UNCHANGED <<file, data, ppid, sessions, eventsLeft, clock, committed, seqStore>>
    /\ UNCHANGED trayVars
    /\ UNCHANGED raised

\* what lines 98-101 raise on a loaded value that is not a dict: list.pop takes
\* one argument, and neither a list nor None has pop or get
NotADict(f, event) ==
    IF f.k = "list" /\ event = "SessionEnd" THEN "TypeError" ELSE "AttributeError"

\* json.load(f) and lines 98-124 on the local dict. A JSON text that is not an
\* object loads without error; the exception of the first dict operation on
\* it is no OSError, so it ends the process inside the with block
HookLoad(p) ==
    /\ pc[p] = "load"
    /\ IF file.k \in {"list", "null"}
       THEN /\ raised' = raised \cup
                    {Raised("hook", "update_status", NotADict(file, EventOf(data[p])))}
            /\ lockHolder' = lockHolder \ {p}
            /\ Exit(p)
            /\ UNCHANGED <<file, eventsLeft, clock, committed, seqStore>>
       ELSE /\ sessions' = [sessions EXCEPT
                      ![p] = Transform(json_load(file), data[p], ppid[p], clock)]
            /\ seqStore' = Transform(seqStore, data[p], ppid[p], clock)
            /\ pc' = [pc EXCEPT ![p] = "truncate"]
            /\ UNCHANGED <<file, lockHolder, data, ppid, eventsLeft, clock, committed>>
            /\ UNCHANGED raised
    /\ UNCHANGED trayVars

\* f.seek(0); f.truncate()
HookTruncate(p) ==
    /\ pc[p] = "truncate"
    /\ file' = FileEmpty
    /\ pc' = [pc EXCEPT ![p] = "dump"]
    /\ UNCHANGED <<lockHolder, data, ppid, sessions, eventsLeft, clock, committed, seqStore>>
    /\ UNCHANGED trayVars
    /\ UNCHANGED raised

\* json.dump(sessions, f): a text longer than the buffer reaches the file in pieces
HookFlushPart(p) ==
    /\ pc[p] = "dump"
    /\ file.k = "empty"
    /\ sessions[p] # EmptyStore
    /\ file' = FilePartial
    /\ UNCHANGED <<lockHolder, pc, data, ppid, sessions, eventsLeft, clock, committed, seqStore>>
    /\ UNCHANGED trayVars
    /\ UNCHANGED raised

\* leaving the with block: the rest of the text is flushed
HookWrite(p) ==
    /\ pc[p] = "dump"
    /\ file' = FileJson(sessions[p])
    /\ committed' = sessions[p]
    /\ pc' = [pc EXCEPT ![p] = "close"]
    /\ UNCHANGED <<lockHolder, data, ppid, sessions, eventsLeft, clock, seqStore>>
    /\ UNCHANGED trayVars
    /\ UNCHANGED raised

\* ... and the descriptor is closed, which releases the lock; the process ends
HookClose(p) ==
    /\ pc[p] = "close"
    /\ lockHolder' = lockHolder \ {p}
    /\ Exit(p)
    /\ UNCHANGED <<file, eventsLeft, clock, committed, seqStore>>
    /\ UNCHANGED trayVars
    /\ UNCHANGED raised

\* A hook process that ends before it has a file descriptor: the event is
\* consumed, nothing of the process is left
EndsEarly(payloads) ==
    /\ eventsLeft > 0
    /\ \E d \in payloads : TRUE
    /\ eventsLeft' = eventsLeft - 1
    /\ UNCHANGED <<file, lockHolder, pc, data, ppid, sessions, clock, committed, seqStore>>
    /\ UNCHANGED trayVars

\* main, line 139: no tray is running, the tray script is there, and
\* subprocess.Popen raises OSError (no python3 to execute, fork fails);
\* launch_tray has no try and main has none: update_status is not reached.
\* The other outcomes of lines 138-139 (a tray is running, the script is not
\* found, the tray is spawned) change nothing and are part of main.
HookLaunchFails ==
    /\ EndsEarly({d \in Payloads : EventOf(d) = "SessionStart"})
    /\ raised' = raised \cup {Raised("hook", "launch_tray", "OSError")}

\* update_status, line 87: os.makedirs raises OSError (a file is in the place
\* of the directory, the home directory is read-only); it is before the try
HookMakedirsFails ==
    /\ EndsEarly(Payloads)
    /\ raised' = raised \cup {Raised("hook", "makedirs", "OSError")}

\* line 90: os.open raises OSError inside the try; except OSError: pass
HookOpenFails ==
    /\ EndsEarly(Payloads)
    /\ UNCHANGED raised

\* an OSError inside the try after the file is open (flock, the read of
\* json.load, seek or truncate): except OSError: pass, the process ends and
\* the descriptor and its lock go with it; the file is as it was
HookStepFails(p) ==
    /\ pc[p] \in {"lock", "load", "truncate"}
    /\ lockHolder' = lockHolder \ {p}
    /\ Exit(p)
    /\ UNCHANGED <<file, eventsLeft, clock, committed, seqStore>>
    /\ UNCHANGED trayVars
    /\ UNCHANGED raised

\* the write of json.dump or the flush at the end of the with block raises
\* OSError (disk full): except OSError: pass; the file keeps what was flushed
HookWriteFails(p) ==
    /\ pc[p] = "dump"
    /\ lockHolder' = lockHolder \ {p}
    /\ Exit(p)
    /\ UNCHANGED <<file, eventsLeft, clock, committed, seqStore>>
    /\ UNCHANGED trayVars
    /\ UNCHANGED raised

\* the process is killed inside the commit; the kernel drops its lock
HookDie(p) ==
    /\ pc[p] \in {"load", "truncate", "dump", "close"}
    /\ lockHolder' = lockHolder \ {p}
    /\ Exit(p)
    /\ UNCHANGED <<file, eventsLeft, clock, committed, seqStore>>
    /\ UNCHANGED trayVars
    /\ UNCHANGED raised

(***************************************************************************)
(* scripts/claude-tray.py                                                  *)
(***************************************************************************)
ICONS ==
    [working |-> "media-record",
     waiting |-> "dialog-question",
     active |-> "user-available",
     idle |-> "user-offline"]

\* a bug: two ranks exchanged
STATUS_PRIORITY_Swapped == [working |-> 1, waiting |-> 0, active |-> 2, idle |-> 3]

STATUS_PRIORITY == [working |-> 0, waiting |-> 1, active |-> 2, idle |-> 3]

Priority(s) == IF s \in DOMAIN STATUS_PRIORITY THEN STATUS_PRIORITY[s] ELSE 99

\* min(..., key=...): the first of the elements with the least key
\* s.get("status", "idle")
StatusOrIdle(info) == Get(info, "status", "idle")

RECURSIVE MinByPriority(_, _, _)
MinByPriority(store, i, best) ==
    IF i > Len(store) THEN best
    ELSE MinByPriority(store, i + 1,
             IF Priority(StatusOrIdle(store[i])) < Priority(best)
             THEN StatusOrIdle(store[i]) ELSE best)

aggregate_status(store) ==
    IF store = EmptyStore THEN "idle"
    ELSE MinByPriority(store, 2, StatusOrIdle(store[1]))

short_id(session_id) ==
    IF Len(session_id) > 8 THEN SubSeq(session_id, 1, 8) ELSE session_id

\* path.rfind("/") + 1, looked for from position i down
RECURSIVE AfterLastSlash(_, _)
AfterLastSlash(path, i) ==
    IF i = 0 THEN 1
    ELSE IF SubSeq(path, i, i) = "/" THEN i + 1
    ELSE AfterLastSlash(path, i - 1)

\* os.path.basename: what follows the last "/"
basename(path) == SubSeq(path, AfterLastSlash(path, Len(path)), Len(path))

\* one row of the menu; the em dash before the directory is written "--"
SessionLabel(info) ==
    LET dirname == IF info.cwd # None /\ info.cwd # "" THEN basename(info.cwd) ELSE ""
    IN  "[" \o short_id(info.sid) \o "] " \o Get(info, "status", "?")
        \o (IF info.tool_name # None /\ info.tool_name # ""
            THEN " (" \o info.tool_name \o ")" ELSE "")
        \o (IF dirname # "" THEN "  -- " \o dirname ELSE "")

build_labels(store) ==
    IF store = EmptyStore
    THEN <<"No active sessions">>
    ELSE <<ToString(Len(store)) \o " session(s)">>
         \o [i \in 1..Len(store) |-> SessionLabel(store[i])]

\* _pending_labels = None; build_labels never returns the empty list
NoLabels == <<>>

NoCalls == [set_label |-> {}, insert |-> {}, remove |-> {}]

\* a bug: set_label only on the rows whose text differs
sync_calls_changed_only(items, labels) ==
    [set_label |-> {i \in 1..Len(labels) : i <= Len(items) /\ items[i] # labels[i]},
     insert |-> {i \in 1..Len(labels) : i > Len(items)},
     remove |-> {i \in 1..Len(items) : i > Len(labels)}]

\* _sync_items: the rows (counted from 1) it calls set_label on, the rows it
\* creates and inserts, and the rows it pops and removes
sync_calls(items, labels) ==
    [set_label |-> {i \in 1..Len(labels) : i <= Len(items)},
     insert |-> {i \in 1..Len(labels) : i > Len(items)},
     remove |-> {i \in 1..Len(items) : i > Len(labels)}]

\* a bug: the surplus rows are not removed
sync_items_keeps_surplus(items, labels) ==
    labels \o SubSeq(items, Len(labels) + 1, Len(items))

\* _sync_items: the labels the menu rows carry afterwards
sync_items(items, labels) ==
    LET relabelled == [i \in 1..Len(labels) |->
                          IF i <= Len(items) THEN labels[i] ELSE labels[i]]
    IN  SubSeq(relabelled, 1, Len(labels))

\* set_icon_full(ICONS.get(agg, "user-offline"), agg); set_title(...)
IconOf(agg) ==
    [name |-> IF agg \in DOMAIN ICONS THEN ICONS[agg] ELSE "user-offline",
     title |-> "Claude Code: " \o agg]

\* a bug: the rows are synchronised also while the menu is open
TrayUpdateStatusNoDefer ==
    /\ clock' = IF clock < MaxClock THEN clock + 1 ELSE clock
    /\ UNCHANGED hookVars
    /\ IF file.k \in {"list", "binary"}
       THEN \* only FileNotFoundError and JSONDecodeError are caught: bytes that
            \* are not UTF-8 raise UnicodeDecodeError in json.load, and a list
            \* raises AttributeError in aggregate_status (sessions.values())
            /\ raised' = raised \cup
                   {Raised("tray", "update_status",
                           IF file.k = "list" THEN "AttributeError"
                                              ELSE "UnicodeDecodeError")}
            /\ UNCHANGED trayVars
       ELSE LET store == json_load(file)
                agg == aggregate_status(store)
                labels == build_labels(store)
            IN  /\ seen' = store
                /\ seenCommitted' = (seenCommitted /\ store = committed)
                /\ IF agg # last_agg
                   THEN /\ icon' = IconOf(agg)
                        /\ last_agg' = agg
                   ELSE UNCHANGED <<icon, last_agg>>
                /\ IF labels # last_labels
                   THEN /\ session_items' = sync_items(session_items, labels)
                        /\ calls' = sync_calls(session_items, labels)
                        /\ last_labels' = labels
                        /\ UNCHANGED pending_labels
                   ELSE /\ calls' = NoCalls
                        /\ UNCHANGED <<session_items, last_labels, pending_labels>>
                /\ UNCHANGED menu_visible
                /\ UNCHANGED raised

\* ClaudeTray.update_status: one timer tick. The timer fires one interval after
\* the tick before it, so a tick is also what moves the clock; the clock stops
\* counting at MaxClock, the ticks go on.
TrayUpdateStatus ==
    /\ clock' = IF clock < MaxClock THEN clock + 1 ELSE clock
    /\ UNCHANGED hookVars
    /\ IF file.k \in {"list", "binary"}
       THEN \* only FileNotFoundError and JSONDecodeError are caught: bytes that
            \* are not UTF-8 raise UnicodeDecodeError in json.load, and a list
            \* raises AttributeError in aggregate_status (sessions.values())
            /\ raised' = raised \cup
                   {Raised("tray", "update_status",
                           IF file.k = "list" THEN "AttributeError"
                                              ELSE "UnicodeDecodeError")}
            /\ UNCHANGED trayVars
       ELSE LET store == json_load(file)
                agg == aggregate_status(store)
                labels == build_labels(store)
            IN  /\ seen' = store
                /\ seenCommitted' = (seenCommitted /\ store = committed)
                /\ IF agg # last_agg
                   THEN /\ icon' = IconOf(agg)
                        /\ last_agg' = agg
                   ELSE UNCHANGED <<icon, last_agg>>
                /\ IF labels # last_labels
                   THEN IF menu_visible
                        THEN /\ pending_labels' = labels
                             /\ calls' = NoCalls
                             /\ UNCHANGED <<session_items, last_labels>>
                        ELSE /\ session_items' = sync_items(session_items, labels)
                             /\ calls' = sync_calls(session_items, labels)
                             /\ last_labels' = labels
                             /\ UNCHANGED pending_labels
                   ELSE /\ calls' = NoCalls
                        /\ UNCHANGED <<session_items, last_labels, pending_labels>>
                /\ UNCHANGED menu_visible
                /\ UNCHANGED raised

on_menu_show ==
    /\ ~menu_visible
    /\ menu_visible' = TRUE
    /\ calls' = NoCalls
    /\ UNCHANGED <<seen, seenCommitted, last_agg, last_labels, session_items,
                   pending_labels, icon, clock>>
    /\ UNCHANGED hookVars
    /\ UNCHANGED raised

on_menu_hide ==
    /\ menu_visible
    /\ menu_visible' = FALSE
    /\ IF pending_labels # NoLabels
       THEN /\ session_items' = sync_items(session_items, pending_labels)
            /\ calls' = sync_calls(session_items, pending_labels)
            /\ last_labels' = pending_labels
            /\ pending_labels' = NoLabels
       ELSE /\ calls' = NoCalls
            /\ UNCHANGED <<session_items, last_labels, pending_labels>>
    /\ UNCHANGED <<seen, seenCommitted, last_agg, icon, clock>>
    /\ UNCHANGED hookVars
    /\ UNCHANGED raised

(***************************************************************************)
(* Specifications                                                          *)
(***************************************************************************)
InitWith(events, f) ==
    /\ file = f
    /\ lockHolder = {}
    /\ pc = [p \in Procs |-> "idle"]
    /\ data = [p \in Procs |-> NoPayload]
    /\ ppid = [p \in Procs |-> 410]
    /\ sessions = [p \in Procs |-> EmptyStore]
    /\ eventsLeft = events
    /\ clock = 0
    /\ committed = json_load(f)
    /\ seqStore = json_load(f)
    /\ seen = EmptyStore
    /\ seenCommitted = TRUE
    /\ last_agg = None
    /\ last_labels = <<"No active sessions">>
    /\ session_items = sync_items(<<>>, <<"No active sessions">>)
    /\ menu_visible = FALSE
    /\ pending_labels = NoLabels
    /\ icon = [name |-> "user-offline", title |-> "Claude Code"]
    /\ calls = sync_calls(<<>>, <<"No active sessions">>)
    /\ raised = {}

Init == InitWith(MaxViewEvents, FileMissing)

InitHook == InitWith(MaxEvents, FileMissing)

Hook(p) ==
    \/ main(p)
    \/ HookLock(p)
    \/ HookLoad(p)
    \/ HookTruncate(p)
    \/ HookFlushPart(p)
    \/ HookWrite(p)
    \/ HookClose(p)

Next ==
    \/ \E p \in Procs : Hook(p)
    \/ TrayUpdateStatus
    \/ on_menu_show
    \/ on_menu_hide

Spec == Init /\ [][Next]_vars

\* the consumer alone, over a file holding any records of any status
MaxRecords == 3

AggStatuses == {"working", "waiting", "active", "idle", "unknown", None}

AggRecord(i, status) ==
    [sid |-> <<"abc123", "0123456789ab", "s3", "s4", "s5">>[i],
     status |-> status, event |-> "", title |-> "", tool_name |-> None,
     cwd |-> None, terminal_pid |-> NoPid, timestamp |-> 0]

AggStores ==
    UNION {{[i \in 1..n |-> AggRecord(i, st[i])] : st \in [1..n -> AggStatuses]} :
              n \in 0..MaxRecords}

InitAgg == \E store \in AggStores : InitWith(0, FileJson(store))

NextAgg ==
    \/ TrayUpdateStatus
    \/ on_menu_show
    \/ on_menu_hide

SpecAgg == InitAgg /\ [][NextAgg]_vars

\* the producers alone
NextHook == \E p \in Procs : Hook(p)

SpecHook == InitHook /\ [][NextHook]_vars

\* the consumer with one producer at a time, over the events that change a
\* label: the life of one session with a tool use, and a second session
ViewPayloads ==
    {Payload(k, "abc123", None, None) : k \in {"SessionStart", "Stop", "SessionEnd"}}
    \cup {Payload("PreToolUse", "abc123", None, "Bash"),
          Payload("SessionStart", "0123456789ab", None, None),
          Payload("SessionEnd", "0123456789ab", None, None)}

mainView(p) == p = 1 /\ mainFrom(p, ViewPayloads, [d \in ViewPayloads |-> ParentsOf(d)])

NextView ==
    \/ \E p \in Procs :
          \/ mainView(p)
          \/ HookLock(p)
          \/ HookLoad(p)
          \/ HookTruncate(p)
          \/ HookFlushPart(p)
          \/ HookWrite(p)
          \/ HookClose(p)
    \/ TrayUpdateStatus
    \/ on_menu_show
    \/ on_menu_hide

SpecView == Init /\ [][NextView]_vars

\* the same where the timer keeps firing (GLib calls update_status every
\* second as long as it returns True, and it always does), over a session
\* that starts, uses a tool and ends, and the start of a second session
LivePayloads ==
    {Payload(k, "abc123", None, None) : k \in {"SessionStart", "SessionEnd"}}
    \cup {Payload("PreToolUse", "abc123", None, "Bash"),
          Payload("SessionStart", "0123456789ab", None, None)}

\* every hook is run from under kitty
UnderKitty(d) == {410}

mainLive(p) == p = 1 /\ mainFrom(p, LivePayloads, [d \in LivePayloads |-> UnderKitty(d)])

NextLive ==
    \/ \E p \in Procs :
          \/ mainLive(p)
          \/ HookLock(p)
          \/ HookLoad(p)
          \/ HookTruncate(p)
          \/ HookFlushPart(p)
          \/ HookWrite(p)
          \/ HookClose(p)
    \/ TrayUpdateStatus
    \/ on_menu_show
    \/ on_menu_hide

SpecLive == Init /\ [][NextLive]_vars /\ WF_vars(TrayUpdateStatus)

\* the producers alone, one session started and ended from under any process
LocatePayloads ==
    {Payload(k, "abc123", None, None) : k \in {"SessionStart", "SessionEnd"}}

\* 999 has no /proc entry
AnyParent(d) == DOMAIN ProcTable \cup {999}

mainLocate(p) == mainFrom(p, LocatePayloads, [d \in LocatePayloads |-> AnyParent(d)])

NextLocate ==
    \E p \in Procs :
        \/ mainLocate(p)
        \/ HookLock(p)
        \/ HookLoad(p)
        \/ HookTruncate(p)
        \/ HookFlushPart(p)
        \/ HookWrite(p)
        \/ HookClose(p)

SpecLocate == InitHook /\ [][NextLocate]_vars

\* the producers and the timer over a file that holds no store at the start,
\* where every system call of a producer can fail
NoStoreFiles == {FileMissing, FileEmpty, FilePartial, FileList, FileNull, FileBinary}

FaultPayloads ==
    {Payload(k, "abc123", None, None) : k \in {"SessionStart", "Stop", "SessionEnd"}}

InitFault == \E f \in NoStoreFiles : InitWith(MaxViewEvents, f)

mainFault(p) == mainFrom(p, FaultPayloads, [d \in FaultPayloads |-> UnderKitty(d)])

NextFault ==
    \/ \E p \in Procs :
          \/ mainFault(p)
          \/ HookLock(p)
          \/ HookLoad(p)
          \/ HookTruncate(p)
          \/ HookFlushPart(p)
          \/ HookWrite(p)
          \/ HookClose(p)
          \/ HookStepFails(p)
          \/ HookWriteFails(p)
    \/ HookLaunchFails
    \/ HookMakedirsFails
    \/ HookOpenFails
    \/ TrayUpdateStatus

SpecFault == InitFault /\ [][NextFault]_vars

\* the producers alone, when a producer can be killed at any point of its commit
NextCrash ==
    \/ \E p \in Procs : Hook(p)
    \/ \E p \in Procs : HookDie(p)

SpecCrash == InitHook /\ [][NextCrash]_vars

(***************************************************************************)
(* Properties                                                              *)
(***************************************************************************)
RecOf(store, sid) == store[IndexOf(store, sid)]

InRewrite(p) == pc[p] \in {"truncate", "dump"}

\* C1: whatever the interleaving of concurrent producers, whenever no producer
\* is between its transform and the end of its rewrite the file holds the
\* result of applying all transforms so far one after another, in the order
\* the producers took the lock: no update is lost.
C1_Serialized ==
    (\A p \in Procs : ~InRewrite(p)) =>
        /\ json_load(file) = seqStore
        /\ file.k \in {"missing", "empty", "json"}
        /\ file.k # "json" => seqStore = EmptyStore

\* two producers in flight: one has rewritten the file and still holds the
\* lock, the other has opened the file and waits for the lock
C1_Witness ==
    \E p, q \in Procs :
        /\ pc[p] = "close" /\ pc[q] = "lock"
        /\ lockHolder = {p}
        /\ SessionOf(data[p]) # SessionOf(data[q])
        /\ Len(seqStore) = 2

\* C2 (as claimed): every poll of the consumer reads the store as the last
\* completed commit left it.
C2_PollSeesCommit == seenCommitted

\* C3 (as claimed): also when producers die inside a commit, whenever no live
\* producer is rewriting the file, the file holds the store as a completed
\* commit left it.
C3_CrashSafe ==
    (\A p \in Procs : ~InRewrite(p)) => json_load(file) = committed

\* C4: from one completed commit to the next, a session that keeps its
\* record and has a non-empty title keeps that title.
C4_TitleFrozen ==
    [][\A sid \in Keys(committed) \cap Keys(committed') :
          RecOf(committed, sid).title # ""
              => RecOf(committed', sid).title = RecOf(committed, sid).title]_vars

\* a second, longer prompt has been committed for a session whose title is
\* the first prompt
C4_Witness ==
    \E p \in Procs :
        /\ pc[p] = "close"
        /\ EventOf(data[p]) = "UserPromptSubmit"
        /\ data[p].prompt = "123456789012345678901"
        /\ SessionOf(data[p]) \in Keys(committed)
        /\ RecOf(committed, SessionOf(data[p])).title = "12345678901234567890"

\* C5: from one completed commit to the next, a session that keeps its
\* record and has a terminal_pid keeps that terminal_pid.
C5_HandleFrozen ==
    [][\A sid \in Keys(committed) \cap Keys(committed') :
          RecOf(committed, sid).terminal_pid # NoPid
              => RecOf(committed', sid).terminal_pid
                     = RecOf(committed, sid).terminal_pid]_vars

\* a session start from under another terminal has been committed for a
\* session that keeps the terminal found by its first start
C5_Witness ==
    \E p \in Procs :
        /\ pc[p] = "close"
        /\ EventOf(data[p]) = "SessionStart"
        /\ find_terminal_pid(ppid[p]) = 210
        /\ SessionOf(data[p]) \in Keys(committed)
        /\ RecOf(committed, SessionOf(data[p])).terminal_pid = 200

\* C6: the rewrite that completes a SessionEnd commit leaves a store without
\* the session id, equal to the store before the commit when the id was not
\* in it, and on which the same SessionEnd changes nothing.
C6_RemovalIdempotent ==
    [][\A p \in Procs :
          (pc[p] = "dump" /\ pc'[p] = "close" /\ EventOf(data[p]) = "SessionEnd") =>
              /\ SessionOf(data[p]) \notin Keys(json_load(file'))
              /\ SessionOf(data[p]) \notin Keys(committed)
                     => json_load(file') = committed
              /\ Transform(json_load(file'), data[p], ppid[p], clock)
                     = json_load(file')]_vars

\* a SessionEnd has removed its session and left another one stored, and the
\* same SessionEnd, from a second process, waits for the lock to be committed
\* again
C6_Witness ==
    \E p, q \in Procs :
        /\ p # q
        /\ pc[p] = "close" /\ pc[q] = "lock"
        /\ data[p] = data[q]
        /\ EventOf(data[p]) = "SessionEnd"
        /\ Len(committed) = 1
        /\ Len(sessions[p]) = 1
        /\ eventsLeft = 0

\* the records the staleness policy of the specification keeps at time now
Alive(store, now) ==
    SelectSeq(store, LAMBDA r : now - r.timestamp < CutoffDuration)

\* C7 (as claimed): a tick at time now uses, for the aggregate and for the
\* rows, the records it read that are younger than the cutoff.
C7_StaleDropped ==
    [][clock' # clock =>
          /\ last_agg' = aggregate_status(Alive(seen', clock'))
          /\ ~menu_visible => session_items' = build_labels(Alive(seen', clock'))]_vars

Ranked == <<"working", "waiting", "active", "idle">>

Present(store) == {StatusOrIdle(store[i]) : i \in 1..Len(store)}

\* C8: after a tick the aggregate is idle when the tick read no records, else
\* the first of working, waiting, active, idle among the statuses it read,
\* and, when none of the four is among them, one of the statuses it read.
C8_Aggregate ==
    last_agg # None =>
        IF seen = EmptyStore THEN last_agg = "idle"
        ELSE IF \E k \in 1..4 : Ranked[k] \in Present(seen)
        THEN \E k \in 1..4 :
                /\ last_agg = Ranked[k]
                /\ Ranked[k] \in Present(seen)
                /\ \A j \in 1..(k - 1) : Ranked[j] \notin Present(seen)
        ELSE last_agg \in Present(seen)

\* a tick over records idle, waiting, working in this order
C8_Witness ==
    /\ Len(seen) = 3
    /\ seen[1].status = "idle" /\ seen[2].status = "waiting" /\ seen[3].status = "working"
    /\ last_agg = "working"
    /\ icon.name = "media-record"

\* C9 (as claimed): a tick that computes the labels the tick before it
\* computed changes no row (both ticks having read a committed store).
C9_ViewStable ==
    [][(/\ menu_visible' = menu_visible
        /\ seenCommitted /\ seenCommitted'
        /\ build_labels(seen') = build_labels(seen))
          => session_items' = session_items]_vars

\* C10: a title captured by this commit (UserPromptSubmit for a session that
\* had no title) is the prompt itself when the prompt has at most
\* TITLE_MAX_LEN characters, and otherwise its first TITLE_MAX_LEN characters
\* followed by "...".
C10_Truncation ==
    \A p \in Procs :
        (/\ pc[p] \in {"truncate", "dump"}
         /\ EventOf(data[p]) = "UserPromptSubmit"
         /\ (SessionOf(data[p]) \in Keys(committed)
                => RecOf(committed, SessionOf(data[p])).title = "")) =>
            LET prompt == data[p].prompt
                title == RecOf(sessions[p], SessionOf(data[p])).title
            IN  IF Len(prompt) <= TITLE_MAX_LEN
                THEN title = prompt
                ELSE /\ Len(title) = TITLE_MAX_LEN + 3
                     /\ SubSeq(title, 1, TITLE_MAX_LEN) = SubSeq(prompt, 1, TITLE_MAX_LEN)
                     /\ SubSeq(title, TITLE_MAX_LEN + 1, TITLE_MAX_LEN + 3) = "..."

\* a prompt one character longer than the limit is being stored as the title
\* of a started session that had none
C10_Witness ==
    \E p \in Procs :
        /\ pc[p] = "dump"
        /\ EventOf(data[p]) = "UserPromptSubmit"
        /\ data[p].prompt = "123456789012345678901"
        /\ SessionOf(data[p]) \in Keys(committed)
        /\ RecOf(committed, SessionOf(data[p])).title = ""
        /\ RecOf(sessions[p], SessionOf(data[p])).title = "12345678901234567890..."

\* the status the specification's table gives an event kind
TableStatus(kind) ==
    CASE kind = "SessionStart" -> "active"
      [] kind \in {"UserPromptSubmit", "PreToolUse"} -> "working"
      [] kind = "Stop" -> "waiting"
      [] OTHER -> "unknown"

\* C11: the rewrite that completes a commit leaves the session without a
\* record when the event is SessionEnd, and otherwise with a record whose
\* status is the table value of the event's kind (unknown for a kind that is
\* not in the table, empty or missing), whatever the status was before.
C11_StatusTable ==
    [][\A p \in Procs :
          (pc[p] = "dump" /\ pc'[p] = "close") =>
              LET sid == SessionOf(data[p])
                  kind == EventOf(data[p])
                  new == json_load(file')
              IN  IF kind = "SessionEnd"
                  THEN sid \notin Keys(new)
                  ELSE /\ sid \in Keys(new)
                       /\ RecOf(new, sid).status = TableStatus(kind)
                       /\ RecOf(new, sid).event = kind]_vars

\* a Stop committed for a session that was started (its terminal is known)
\* and prompted (its title is set): active, working, waiting
C11_Witness ==
    \E p \in Procs :
        /\ pc[p] = "close"
        /\ EventOf(data[p]) = "Stop"
        /\ LET r == RecOf(committed, SessionOf(data[p]))
           IN  /\ r.status = "waiting"
               /\ r.title = "12345678901234567890..."
               /\ r.terminal_pid = 200

\* the part of a store that belongs to one session id
Only(store, sid) == SelectSeq(store, LAMBDA r : r.sid = sid)

AllSids == Sids \cup {"unknown"}

\* C18: the rewrite that completes a commit for session id A leaves every
\* other id B as the previous completed rewrite left it (present or absent,
\* with the same fields), and leaves A as A's own event makes it from A's
\* previous record alone; so B's record is there exactly when an event for B
\* created it and no terminal event for B was committed since, with the
\* fields written by B's last event.
C18_Frame ==
    [][\A p \in Procs :
          (pc[p] = "dump" /\ pc'[p] = "close") =>
              LET A == SessionOf(data[p])
                  new == json_load(file')
              IN  /\ \A B \in AllSids \ {A} : Only(new, B) = Only(committed, B)
                  /\ Only(new, A) =
                         Transform(Only(committed, A), data[p], ppid[p], clock)]_vars

\* a start and an end of the second session were committed around the record
\* of the first, which is as its own start left it
C18_Witness ==
    \E p \in Procs :
        /\ pc[p] = "close"
        /\ EventOf(data[p]) = "SessionEnd"
        /\ SessionOf(data[p]) = "0123456789ab"
        /\ Keys(committed) = {"abc123"}
        /\ RecOf(committed, "abc123").status = "active"
        /\ RecOf(committed, "abc123").terminal_pid = 200
        /\ eventsLeft = 0

\* the k-th ancestor of a process in the process tree (0: the process itself)
RECURSIVE Ancestor(_, _)
Ancestor(pid, k) ==
    IF k = 0 THEN pid
    ELSE IF pid \in DOMAIN ProcTable THEN Ancestor(ProcTable[pid].ppid, k - 1)
    ELSE NoPid

Matches(pid) ==
    /\ pid \in DOMAIN ProcTable
    /\ \E t \in TERMINAL_NAMES : startswith(ProcTable[pid].comm, t)

\* the lookup of the parent id succeeds: the process is there and a number is
\* read from its stat text
LookupSucceeds(pid) ==
    /\ pid \in DOMAIN ProcTable
    /\ StatParent[pid] # ValueError

\* the ancestors at which the walk may stop with a result: reached within the
\* ten hops, after ancestors that do not match, whose lookup succeeds and
\* whose parent id is above 1
NearestHops(parent) ==
    {k \in 0..9 :
        /\ Matches(Ancestor(parent, k))
        /\ \A j \in 0..(k - 1) :
              /\ ~Matches(Ancestor(parent, j))
              /\ LookupSucceeds(Ancestor(parent, j))
              /\ ProcTable[Ancestor(parent, j)].ppid > 1}

Nearest(parent) ==
    IF NearestHops(parent) = {} THEN NoPid
    ELSE Ancestor(parent, CHOOSE k \in NearestHops(parent) :
                               \A j \in NearestHops(parent) : k <= j)

\* C17: the terminal_pid a first session start stores is the nearest ancestor
\* of the producer, its parent first, whose name starts with a terminal name,
\* when that ancestor is reached within ten hops, before an ancestor whose
\* parent id is <= 1 and before a failed lookup; otherwise it is None.
C17_Locate ==
    [][\A p \in Procs :
          (/\ pc[p] = "load" /\ pc'[p] = "truncate"
           /\ EventOf(data[p]) = "SessionStart"
           /\ SessionOf(data[p]) \notin Keys(json_load(file))) =>
              RecOf(sessions'[p], SessionOf(data[p])).terminal_pid
                  = Nearest(ppid[p])]_vars

\* C14: when the hide handler has run, the displayed labels are the labels
\* the latest tick built from the store it read (in a run where every tick
\* read a completely written store).
C14_HideShowsLatest ==
    [][(menu_visible /\ ~menu_visible' /\ seenCommitted) =>
           session_items' = build_labels(seen)]_vars

\* C15: from a state with the menu open to a state with the menu open no row
\* changes and no row operation is made (no set_label, no row inserted or
\* removed); and once a tick has run, the displayed aggregate and icon are
\* those of the store the latest tick read, menu open or not.
C15_FrozenWhileOpen ==
    [][/\ (menu_visible /\ menu_visible') =>
              /\ session_items' = session_items
              /\ calls' = NoCalls
       /\ last_agg' # None =>
              /\ last_agg' = aggregate_status(seen')
              /\ icon' = IconOf(aggregate_status(seen'))]_vars

\* with the menu open a tick has read a store with a working session: the
\* icon shows it, the rows do not, the labels wait for the hide
C15_Witness ==
    /\ menu_visible
    /\ seen # EmptyStore
    /\ last_agg = "working"
    /\ icon.name = "media-record"
    /\ session_items = <<"No active sessions">>
    /\ pending_labels = build_labels(seen)
    /\ calls = NoCalls

Min(a, b) == IF a <= b THEN a ELSE b

RowsShow(store) ==
    /\ Len(session_items) = Len(store) + 1
    /\ session_items[1] = IF store = EmptyStore THEN "No active sessions"
                          ELSE ToString(Len(store)) \o " session(s)"
    /\ \A i \in 1..Len(store) : session_items[i + 1] = SessionLabel(store[i])

Converged ==
    /\ RowsShow(json_load(file))
    /\ last_agg = aggregate_status(json_load(file))
    /\ icon = IconOf(aggregate_status(json_load(file)))

\* C20: if from some point on the file does not change and the menu stays
\* closed, then, the timer firing, from some point on the rows are the
\* header and one label per session of the file, in store order, and the
\* displayed aggregate is the aggregate of the file.
C20_Converges ==
    (<>[][file' = file]_vars /\ <>[](~menu_visible)) => <>[]Converged

\* all events are committed, the menu is closed and the view shows the two
\* sessions of the file
C20_Witness ==
    /\ eventsLeft = 0
    /\ \A p \in Procs : pc[p] = "idle"
    /\ ~menu_visible
    /\ file = FileJson(committed)
    /\ Keys(committed) = Sids
    /\ Len(session_items) = 3
    /\ Converged
    /\ pending_labels = NoLabels

\* C12 (as claimed): no content of the file makes a producer's commit or the
\* consumer's poll raise.
C12_DegradeNeverCrash ==
    \A e \in raised : e.at # "update_status"

\* C13 (as claimed): no OSError of a step of the commit leaves the producer.
C13_Swallowed ==
    \A e \in raised :
        ~(e.proc = "hook" /\ e.exc = "OSError" /\ e.at = "makedirs")

\* C19 (as claimed): no failure of the launch of the consumer leaves the
\* producer, which goes on to commit the SessionStart.
C19_LaunchCannotLoseEvent ==
    \A e \in raised : e.at # "launch_tray"

====
